---- MODULE Spec2Model ----
(***************************************************************************)
(* Model of agent/agent.py: the UserData record of one session, the tool   *)
(* callbacks of FormFiller that the language model may invoke, the         *)
(* data_received listener handle_data, and send_to_frontend, which         *)
(* publishes the metrics payload on the room's data channel.               *)
(*                                                                         *)
(* Everything runs on one asyncio event loop.  A tool coroutine runs       *)
(* without interruption up to its only await (publish_data inside          *)
(* send_to_frontend); the payload is built and handed to publish_data      *)
(* before that suspension.  handle_data is a plain (synchronous) callback, *)
(* so it runs atomically, either between tool calls or while a tool call   *)
(* is suspended at its await.                                              *)
(***************************************************************************)
EXTENDS Integers, Sequences, FiniteSets, TLC

(***************************************************************************)
(* Bounds of the exploration.                                              *)
(***************************************************************************)
\* events of one session: tool calls started plus data packets received
MaxEvents == 5

(***************************************************************************)
(* Python / JSON values.  A value is a pair <<type, text>>.                *)
(***************************************************************************)
None == <<"NoneType", "">>

Str(s) == <<"str", s>>

\* marks a key that is absent from a decoded JSON object
Missing == <<"absent", "">>

\* strings the language model passes to the update_* tools
Strings == {"Ada", "Bob"}

\* values a remote peer may put under "value": JSON null or a string
PeerValues == {None, Str("Eve")}

\* values a remote peer may put under "field"
PeerFields == {Str("name"), Str("phone"), Str("email"), Str("unknown")}

\* str(v), as an f-string placeholder renders it
Format(v) == IF v = None THEN "None" ELSE v[2]

\* json.dumps of an Optional[str] value of the metrics dict
dumps(v) == IF v = None THEN "null" ELSE "\"" \o v[2] \o "\""

\* json.dumps of a bool value of the metrics dict
dumps_bool(b) == IF b THEN "true" ELSE "false"

(***************************************************************************)
(* Data packets.  data is the class of the byte payload: bytes that are    *)
(* not UTF-8, text that is not JSON, a JSON document that is not an        *)
(* object, or a JSON object, whose keys "field" and "value" are in obj     *)
(* (Missing when the key is absent).                                       *)
(***************************************************************************)
NoKeys == [field |-> Missing, value |-> Missing]

NonObjects == {"json_null", "json_string", "json_array"}

Packets ==
    {[data |-> d, obj |-> NoKeys] : d \in {"invalid_utf8", "invalid_json"} \cup NonObjects}
    \cup {[data |-> "json_object", obj |-> [field |-> f, value |-> v]] :
            f \in PeerFields \cup {Missing}, v \in PeerValues \cup {Missing}}

NoPacket == [data |-> "", obj |-> NoKeys]

VARIABLES
    customer_name,   \* UserData.customer_name
    customer_phone,  \* UserData.customer_phone
    customer_email,  \* UserData.customer_email
    should_submit,   \* UserData.should_submit
    published,       \* number of publish_data calls made so far
    payload,         \* the payload of the latest publish_data call
    pc,              \* "idle", or "await": a tool call is suspended in publish_data
    call,            \* the latest tool call that reached publish_data
    ret,             \* the string the latest step returned to the caller ("" if none)
    op,              \* the handler the latest step belongs to
    pre,             \* the record and the publish count before the latest step
    packet,          \* the packet the latest handle_data step received
    log,             \* the last message handle_data logged
    escaped,         \* an exception left handle_data
    calls,           \* tool calls started
    packets,         \* packets received
    lastSet,         \* the last value passed to each update_* tool
    scenario         \* how far the session has followed the reference scenario

vars == <<customer_name, customer_phone, customer_email, should_submit,
          published, payload, pc, call, ret, op, pre, packet, log, escaped,
          calls, packets, lastSet, scenario>>

\* the UserData dataclass (ctx left out: it is set once and never changes)
UserData(n, p, e, s) ==
    [customer_name |-> n, customer_phone |-> p, customer_email |-> e,
     should_submit |-> s]

\* the session's record, as it is now
userdata == UserData(customer_name, customer_phone, customer_email, should_submit)

Before == [userdata |-> userdata, published |-> published]

NoPayload ==
    [customer_name |-> "", customer_phone |-> "", customer_email |-> "",
     should_submit |-> ""]

\* the metrics dict of send_to_frontend, each value JSON-encoded
send_to_frontend(u) ==
    [customer_name |-> dumps(u.customer_name),
     customer_phone |-> dumps(u.customer_phone),
     customer_email |-> dumps(u.customer_email),
     should_submit |-> dumps_bool(u.should_submit)]

Init ==
    /\ customer_name = None
    /\ customer_phone = None
    /\ customer_email = None
    /\ should_submit = FALSE
    /\ published = 0
    /\ payload = NoPayload
    /\ pc = "idle"
    /\ call = [tool |-> "", arg |-> "", resubmit |-> FALSE]
    /\ ret = ""
    /\ op = "entrypoint"
    /\ pre = [userdata |-> UserData(None, None, None, FALSE), published |-> 0]
    /\ packet = NoPacket
    /\ log = ""
    /\ escaped = FALSE
    /\ calls = 0
    /\ packets = 0
    /\ lastSet = [customer_name |-> None, customer_phone |-> None, customer_email |-> None]
    /\ scenario = 0

\* The reference scenario on a fresh record: update_name, submit_form,
\* update_phone, update_email, submit_form.  scenario counts the calls of it
\* made so far, and is Off once the session has left it.
Off == 0 - 1

Script == <<"update_name", "submit_form", "update_phone", "update_email", "submit_form">>

Follow(tool) ==
    IF scenario \in 0..(Len(Script) - 1) /\ Script[scenario + 1] = tool
    THEN scenario + 1 ELSE Off

\* a tool call starts: the bookkeeping every tool step shares
ToolStep(tool) ==
    /\ pc = "idle"
    /\ calls + packets < MaxEvents
    /\ calls' = calls + 1
    /\ op' = tool
    /\ pre' = Before
    /\ scenario' = Follow(tool)
    /\ UNCHANGED <<packet, log, escaped, packets>>

\* the tool reaches "await send_to_frontend(userdata)" with the record u
Publish(tool, arg, u) ==
    /\ published' = published + 1
    /\ payload' = send_to_frontend(u)
    /\ pc' = "await"
    /\ call' = [tool |-> tool, arg |-> arg, resubmit |-> (tool = "submit_form" /\ should_submit)]
    /\ ret' = ""

\* the tool returns r without reaching an await
Return(r) ==
    /\ ret' = r
    /\ UNCHANGED <<published, payload, pc, call>>

\* update_name that keeps a name already stored
update_name_KeepFirst(name) ==
    /\ ToolStep("update_name")
    /\ customer_name' = IF customer_name = None THEN Str(name) ELSE customer_name
    /\ UNCHANGED <<customer_phone, customer_email, should_submit>>
    /\ Publish("update_name", name,
               UserData(IF customer_name = None THEN Str(name) ELSE customer_name,
                        customer_phone, customer_email, should_submit))
    /\ lastSet' = [lastSet EXCEPT !.customer_name = Str(name)]

\* update_name that appends to a name already stored
update_name_Append(name) ==
    /\ ToolStep("update_name")
    /\ customer_name' = IF customer_name = None THEN Str(name)
                        ELSE Str(customer_name[2] \o name)
    /\ UNCHANGED <<customer_phone, customer_email, should_submit>>
    /\ Publish("update_name", name,
               UserData(IF customer_name = None THEN Str(name)
                        ELSE Str(customer_name[2] \o name),
                        customer_phone, customer_email, should_submit))
    /\ lastSet' = [lastSet EXCEPT !.customer_name = Str(name)]

update_name(name) ==
    /\ ToolStep("update_name")
    /\ customer_name' = Str(name)
    /\ UNCHANGED <<customer_phone, customer_email, should_submit>>
    /\ Publish("update_name", name,
               UserData(Str(name), customer_phone, customer_email, should_submit))
    /\ lastSet' = [lastSet EXCEPT !.customer_name = Str(name)]

update_phone(phone) ==
    /\ ToolStep("update_phone")
    /\ customer_phone' = Str(phone)
    /\ UNCHANGED <<customer_name, customer_email, should_submit>>
    /\ Publish("update_phone", phone,
               UserData(customer_name, Str(phone), customer_email, should_submit))
    /\ lastSet' = [lastSet EXCEPT !.customer_phone = Str(phone)]

\* update_email that publishes before it assigns
update_email_StaleSnapshot(email) ==
    /\ ToolStep("update_email")
    /\ customer_email' = Str(email)
    /\ UNCHANGED <<customer_name, customer_phone, should_submit>>
    /\ Publish("update_email", email, userdata)
    /\ lastSet' = [lastSet EXCEPT !.customer_email = Str(email)]

update_email(email) ==
    /\ ToolStep("update_email")
    /\ customer_email' = Str(email)
    /\ UNCHANGED <<customer_name, customer_phone, should_submit>>
    /\ Publish("update_email", email,
               UserData(customer_name, customer_phone, Str(email), should_submit))
    /\ lastSet' = [lastSet EXCEPT !.customer_email = Str(email)]

get_name ==
    /\ ToolStep("get_name")
    /\ Return("User's name is " \o Format(customer_name))
    /\ UNCHANGED <<customer_name, customer_phone, customer_email, should_submit, lastSet>>

get_phone ==
    /\ ToolStep("get_phone")
    /\ Return("User's phone number is " \o Format(customer_phone))
    /\ UNCHANGED <<customer_name, customer_phone, customer_email, should_submit, lastSet>>

\* get_email reading the phone attribute
get_email_CopyPaste ==
    /\ ToolStep("get_email")
    /\ Return("User's email is " \o Format(customer_phone))
    /\ UNCHANGED <<customer_name, customer_phone, customer_email, should_submit, lastSet>>

get_email ==
    /\ ToolStep("get_email")
    /\ Return("User's email is " \o Format(customer_email))
    /\ UNCHANGED <<customer_name, customer_phone, customer_email, should_submit, lastSet>>

\* MissingPrompt with the three tests in the opposite order
MissingPrompt_EmailFirst(u) ==
    IF u.customer_email = None THEN "Please provide your email."
    ELSE IF u.customer_phone = None THEN "Please provide your phone number."
    ELSE IF u.customer_name = None THEN "Please provide your name."
    ELSE ""

\* the three "is None" tests of submit_form: the prompt returned, "" if none
MissingPrompt(u) ==
    IF u.customer_name = None THEN "Please provide your name."
    ELSE IF u.customer_phone = None THEN "Please provide your phone number."
    ELSE IF u.customer_email = None THEN "Please provide your email."
    ELSE ""

\* submit_form without the three tests
submit_form_Unchecked ==
    /\ ToolStep("submit_form")
    /\ UNCHANGED <<customer_name, customer_phone, customer_email, lastSet>>
    /\ should_submit' = TRUE
    /\ Publish("submit_form", "",
               UserData(customer_name, customer_phone, customer_email, TRUE))

\* submit_form publishing the record before the three tests
submit_form_AlwaysPublish ==
    /\ ToolStep("submit_form")
    /\ UNCHANGED <<customer_name, customer_phone, customer_email, lastSet>>
    /\ should_submit' = (MissingPrompt(userdata) = "" \/ should_submit)
    /\ Publish("submit_form", "",
               UserData(customer_name, customer_phone, customer_email,
                        MissingPrompt(userdata) = "" \/ should_submit))

\* submit_form that does nothing more once the form is submitted
submit_form_Guarded ==
    /\ ToolStep("submit_form")
    /\ UNCHANGED <<customer_name, customer_phone, customer_email, lastSet>>
    /\ IF MissingPrompt(userdata) # ""
       THEN /\ Return(MissingPrompt(userdata))
            /\ UNCHANGED should_submit
       ELSE IF should_submit
       THEN /\ Return("The form is submitted")
            /\ UNCHANGED should_submit
       ELSE /\ should_submit' = TRUE
            /\ Publish("submit_form", "",
                       UserData(customer_name, customer_phone, customer_email, TRUE))

submit_form ==
    /\ ToolStep("submit_form")
    /\ UNCHANGED <<customer_name, customer_phone, customer_email, lastSet>>
    /\ IF MissingPrompt(userdata) # ""
       THEN /\ Return(MissingPrompt(userdata))
            /\ UNCHANGED should_submit
       ELSE /\ should_submit' = TRUE
            /\ Publish("submit_form", "",
                       UserData(customer_name, customer_phone, customer_email, TRUE))

\* the return statement that follows "await send_to_frontend(userdata)"
ReturnValue(c) ==
    IF c.tool = "update_name" THEN "The name is updated to " \o c.arg
    ELSE IF c.tool = "update_phone" THEN "The phone number is updated to " \o c.arg
    ELSE IF c.tool = "update_email" THEN "The email is updated to " \o c.arg
    ELSE "The form is submitted"

\* resume of a tool that builds its payload only after the await
resume_LatePublish ==
    /\ pc = "await"
    /\ pc' = "idle"
    /\ ret' = ReturnValue(call)
    /\ op' = "resume"
    /\ pre' = Before
    /\ payload' = send_to_frontend(userdata)
    /\ UNCHANGED <<customer_name, customer_phone, customer_email, should_submit,
                   published, call, packet, log, escaped, calls,
                   packets, lastSet, scenario>>

\* publish_data completes and the suspended tool call returns
resume ==
    /\ pc = "await"
    /\ pc' = "idle"
    /\ ret' = ReturnValue(call)
    /\ op' = "resume"
    /\ pre' = Before
    /\ UNCHANGED <<customer_name, customer_phone, customer_email, should_submit,
                   published, payload, call, packet, log, escaped, calls,
                   packets, lastSet, scenario>>

(***************************************************************************)
(* handle_data.  TryBody is the body of the try block: the exception it    *)
(* raises ("" if none), the attribute it assigns ("" if none) with the     *)
(* value, and the message it logs last.                                    *)
(***************************************************************************)
Outcome(exc, attr, value, msg) ==
    [raised |-> exc, attr |-> attr, value |-> value, log |-> msg]

\* obj.get("field")
get_field(obj) == IF obj.field = Missing THEN None ELSE obj.field

\* Assign reading the value with obj.get("value")
Assign_Get(obj, attr, msg) ==
    Outcome("", attr, IF obj.value = Missing THEN None ELSE obj.value, msg)

\* "userdata.<attr> = obj["value"]" and the logger.info after it
Assign(obj, attr, msg) ==
    IF obj.value = Missing
    THEN Outcome("KeyError", "", None, "received data")
    ELSE Outcome("", attr, obj.value, msg)

\* TryBody whose last elif is an else: any other selector counts as email
TryBody_ElseEmail(p) ==
    IF p.data = "invalid_utf8" THEN Outcome("UnicodeDecodeError", "", None, "")
    ELSE IF p.data = "invalid_json" THEN Outcome("JSONDecodeError", "", None, "")
    ELSE IF p.data \in NonObjects THEN Outcome("AttributeError", "", None, "received data")
    ELSE IF get_field(p.obj) = Str("name") THEN Assign(p.obj, "customer_name", "updated name")
    ELSE IF get_field(p.obj) = Str("phone") THEN Assign(p.obj, "customer_phone", "updated phone")
    ELSE Assign(p.obj, "customer_email", "updated email")

\* TryBody whose phone branch assigns the name attribute
TryBody_PhoneToName(p) ==
    IF p.data = "invalid_utf8" THEN Outcome("UnicodeDecodeError", "", None, "")
    ELSE IF p.data = "invalid_json" THEN Outcome("JSONDecodeError", "", None, "")
    ELSE IF p.data \in NonObjects THEN Outcome("AttributeError", "", None, "received data")
    ELSE IF get_field(p.obj) = Str("name") THEN Assign(p.obj, "customer_name", "updated name")
    ELSE IF get_field(p.obj) = Str("phone") THEN Assign(p.obj, "customer_name", "updated phone")
    ELSE IF get_field(p.obj) = Str("email") THEN Assign(p.obj, "customer_email", "updated email")
    ELSE Outcome("", "", None, "unknown field")

TryBody(p) ==
    IF p.data = "invalid_utf8" THEN Outcome("UnicodeDecodeError", "", None, "")
    ELSE IF p.data = "invalid_json" THEN Outcome("JSONDecodeError", "", None, "")
    ELSE IF p.data \in NonObjects THEN Outcome("AttributeError", "", None, "received data")
    ELSE IF get_field(p.obj) = Str("name") THEN Assign(p.obj, "customer_name", "updated name")
    ELSE IF get_field(p.obj) = Str("phone") THEN Assign(p.obj, "customer_phone", "updated phone")
    ELSE IF get_field(p.obj) = Str("email") THEN Assign(p.obj, "customer_email", "updated email")
    ELSE Outcome("", "", None, "unknown field")

\* "except ValueError": a clause that catches the decoding errors only
except_ValueError(exc) == exc \in {"UnicodeDecodeError", "JSONDecodeError"}

\* "except Exception": the exception classes the clause catches
except_Exception(exc) ==
    exc \in {"UnicodeDecodeError", "JSONDecodeError", "AttributeError", "KeyError"}

handle_data(p) ==
    /\ calls + packets < MaxEvents
    /\ packets' = packets + 1
    /\ op' = "handle_data"
    /\ pre' = Before
    /\ packet' = p
    /\ ret' = ""
    /\ scenario' = Off
    /\ LET r == TryBody(p) IN
        /\ customer_name' = IF r.attr = "customer_name" THEN r.value ELSE customer_name
        /\ customer_phone' = IF r.attr = "customer_phone" THEN r.value ELSE customer_phone
        /\ customer_email' = IF r.attr = "customer_email" THEN r.value ELSE customer_email
        /\ log' = IF r.raised # "" /\ except_Exception(r.raised)
                  THEN "failed to parse data packet" ELSE r.log
        /\ escaped' = (escaped \/ (r.raised # "" /\ ~except_Exception(r.raised)))
    /\ UNCHANGED <<should_submit, published, payload, pc, call, calls, lastSet>>

ToolCall ==
    \/ \E name \in Strings : update_name(name)
    \/ \E phone \in Strings : update_phone(phone)
    \/ \E email \in Strings : update_email(email)
    \/ get_name
    \/ get_phone
    \/ get_email
    \/ submit_form
    \/ resume

Next ==
    \/ ToolCall
    \/ \E p \in Packets : handle_data(p)

Spec == Init /\ [][Next]_vars

\* a session in which no data packet arrives: tool calls only
SpecTools == Init /\ [][ToolCall]_vars

TypeOK ==
    /\ should_submit \in BOOLEAN
    /\ pc \in {"idle", "await"}
    /\ published \in 0..MaxEvents
    /\ calls \in 0..MaxEvents
    /\ packets \in 0..MaxEvents

(***************************************************************************)
(* Properties.                                                             *)
(***************************************************************************)
Success == "The form is submitted"

AllSet(u) ==
    u.customer_name # None /\ u.customer_phone # None /\ u.customer_email # None

\* C1: submit_form returns a prompt whenever a field is unset, naming the
\* first unset field in the order name, phone, email, and then leaves
\* should_submit alone; it sets should_submit and goes on to return the
\* success confirmation exactly when all three fields are set at the call.
C1_SubmitPromptPriority ==
    /\ op = "submit_form" =>
        /\ pre.userdata.customer_name = None => ret = "Please provide your name."
        /\ (pre.userdata.customer_name # None /\ pre.userdata.customer_phone = None)
              => ret = "Please provide your phone number."
        /\ (pre.userdata.customer_name # None /\ pre.userdata.customer_phone # None
               /\ pre.userdata.customer_email = None)
              => ret = "Please provide your email."
        /\ ~AllSet(pre.userdata) =>
              pc = "idle" /\ should_submit = pre.userdata.should_submit
        /\ AllSet(pre.userdata) =>
              pc = "await" /\ call.tool = "submit_form" /\ should_submit /\ ret = ""
    /\ (op = "resume" /\ call.tool = "submit_form") => ret = Success /\ should_submit
    /\ ret = Success => (op = "resume" /\ call.tool = "submit_form")

\* name is set, phone and email are both unset: the prompt names the phone
C1_Witness ==
    /\ op = "submit_form"
    /\ pre.userdata.customer_name = Str("Ada")
    /\ customer_phone = None
    /\ customer_email = None
    /\ ret = "Please provide your phone number."
    /\ ~should_submit

\* C2: should_submit is false when the record is created, becomes true only
\* in a submit_form step that finds all three fields set, and never becomes
\* false again, whatever tool calls and data packets interleave.
C2_SubmittedMonotone ==
    /\ should_submit = FALSE
    /\ [][/\ should_submit => should_submit'
          /\ (~should_submit /\ should_submit') =>
                (op' = "submit_form" /\ AllSet(userdata))]_vars

\* a data packet was handled after the submission and the flag is still set
C2_Witness ==
    /\ should_submit
    /\ op = "handle_data"
    /\ pre.userdata.should_submit
    /\ customer_name # pre.userdata.customer_name

\* C3: with tool calls only, each field equals the last value passed to its
\* update_* tool, and is unset if that tool was never called.
C3_LastWriteWins ==
    /\ customer_name = lastSet.customer_name
    /\ customer_phone = lastSet.customer_phone
    /\ customer_email = lastSet.customer_email
    /\ op = "update_name" => customer_name = Str(call.arg)
    /\ op = "update_phone" => customer_phone = Str(call.arg)
    /\ op = "update_email" => customer_email = Str(call.arg)

\* update_name("Bob") has overwritten "Ada", and email was never set
C3_Witness ==
    /\ op = "update_name"
    /\ pre.userdata.customer_name = Str("Ada")
    /\ customer_name = Str("Bob")
    /\ customer_phone = Str("Ada")
    /\ customer_email = None

IsUpdate(o) == o \in {"update_name", "update_phone", "update_email"}

\* C4: each update_* call and each submit_form call that passes its tests
\* makes exactly one publish_data call, whose payload has the four keys with
\* the values the record has after the mutation; the rest of the call (its
\* return) publishes nothing more.
C4_OneFullBroadcast ==
    /\ (IsUpdate(op) \/ (op = "submit_form" /\ AllSet(pre.userdata))) =>
        /\ published = pre.published + 1
        /\ DOMAIN payload =
              {"customer_name", "customer_phone", "customer_email", "should_submit"}
        /\ payload.customer_name = dumps(customer_name)
        /\ payload.customer_phone = dumps(customer_phone)
        /\ payload.customer_email = dumps(customer_email)
        /\ payload.should_submit = dumps_bool(should_submit)
    /\ op = "resume" => published = pre.published

\* the second publish of a session carries the name set by the first call
C4_Witness ==
    /\ op = "update_phone"
    /\ published = 2
    /\ payload.customer_name = "\"Ada\""
    /\ payload.customer_phone = "\"Bob\""
    /\ payload.customer_email = "null"
    /\ payload.should_submit = "false"

Recognized == {Str("name"), Str("phone"), Str("email")}

Malformed == {"invalid_utf8", "invalid_json"} \cup NonObjects

\* the payload of the latest publish_data call is the record as it is now
PublishedIsCurrent ==
    /\ payload.customer_name = dumps(customer_name)
    /\ payload.customer_phone = dumps(customer_phone)
    /\ payload.customer_email = dumps(customer_email)
    /\ payload.should_submit = dumps_bool(should_submit)

\* C5: a data packet that decodes to a recognized selector with a value
\* updates that field and makes one publish_data call with the full record,
\* so the latest payload equals the record.
C5_InboundBroadcast ==
    (/\ op = "handle_data"
     /\ packet.data = "json_object"
     /\ packet.obj.field \in Recognized
     /\ packet.obj.value # Missing) =>
        /\ packet.obj.field = Str("name") => customer_name = packet.obj.value
        /\ packet.obj.field = Str("phone") => customer_phone = packet.obj.value
        /\ packet.obj.field = Str("email") => customer_email = packet.obj.value
        /\ published = pre.published + 1
        /\ PublishedIsCurrent

\* C6: a payload that is not UTF-8, not JSON, or JSON that is not an object
\* changes none of the four fields, publishes nothing, and its exception is
\* caught and logged inside handle_data.
C6_MalformedAbsorbed ==
    (op = "handle_data" /\ packet.data \in Malformed) =>
        /\ userdata = pre.userdata
        /\ published = pre.published
        /\ ~escaped
        /\ log = "failed to parse data packet"

\* a JSON array arrives while update_name("Ada") is suspended in publish_data
C6_Witness ==
    /\ op = "handle_data"
    /\ packet.data = "json_array"
    /\ pc = "await"
    /\ call.tool = "update_name"
    /\ customer_name = Str("Ada")
    /\ log = "failed to parse data packet"

\* C7: a JSON object whose selector is none of name, phone, email, or is
\* absent, changes none of the four fields and publishes nothing.
C7_UnknownSelectorIgnored ==
    (/\ op = "handle_data"
     /\ packet.data = "json_object"
     /\ packet.obj.field \notin Recognized) =>
        /\ userdata = pre.userdata
        /\ published = pre.published
        /\ log = "unknown field"
        /\ ~escaped

\* an object with a value and no selector arrives at a record with an email
C7_Witness ==
    /\ op = "handle_data"
    /\ packet.data = "json_object"
    /\ packet.obj.field = Missing
    /\ packet.obj.value = Str("Eve")
    /\ customer_email = Str("Bob")
    /\ log = "unknown field"

\* C8: a submit_form call that finds a field unset changes none of the four
\* fields and publishes nothing; and the reference scenario gets the phone
\* prompt from its first submit_form, and ends with should_submit true,
\* the success confirmation and 4 publishes in all.
C8_FailedSubmitFrame ==
    /\ (op = "submit_form" /\ ~AllSet(pre.userdata)) =>
        /\ userdata = pre.userdata
        /\ published = pre.published
        /\ pc = "idle"
    /\ scenario = 2 =>
        /\ ret = "Please provide your phone number."
        /\ published = 1
        /\ ~should_submit
    /\ scenario = 5 => (published = 4 /\ should_submit)
    /\ (scenario = 5 /\ op = "resume") => ret = Success

\* the scenario has run to its end
C8_Witness ==
    /\ scenario = 5
    /\ op = "resume"
    /\ published = 4
    /\ should_submit
    /\ ret = Success

\* C9: get_name, get_phone and get_email return the text of their field,
\* "None" for an unset field, change none of the four fields and publish
\* nothing.
C9_GettersReadOnly ==
    /\ op = "get_name" =>
          ret = "User's name is "
                  \o (IF customer_name = None THEN "None" ELSE customer_name[2])
    /\ op = "get_phone" =>
          ret = "User's phone number is "
                  \o (IF customer_phone = None THEN "None" ELSE customer_phone[2])
    /\ op = "get_email" =>
          ret = "User's email is "
                  \o (IF customer_email = None THEN "None" ELSE customer_email[2])
    /\ op \in {"get_name", "get_phone", "get_email"} =>
        /\ userdata = pre.userdata
        /\ published = pre.published
        /\ pc = "idle"

\* get_email on a record whose email is unset and whose phone is set
C9_Witness ==
    /\ op = "get_email"
    /\ customer_email = None
    /\ customer_phone = Str("Ada")
    /\ ret = "User's email is None"

\* C10: submit_form called when should_submit is already true and the three
\* fields are still set publishes the unchanged record once more, leaves
\* should_submit true and returns the success confirmation again.
C10_ResubmitRepublishes ==
    /\ (op = "submit_form" /\ pre.userdata.should_submit /\ AllSet(pre.userdata)) =>
        /\ userdata = pre.userdata
        /\ published = pre.published + 1
        /\ payload = send_to_frontend(pre.userdata)
        /\ pc = "await"
        /\ call.tool = "submit_form"
        /\ call.resubmit
    /\ (op = "resume" /\ call.resubmit) =>
        /\ ret = Success
        /\ should_submit
        /\ published = pre.published

\* the second submit_form of a session has returned
C10_Witness ==
    /\ op = "resume"
    /\ call.resubmit
    /\ ret = Success
    /\ should_submit
    /\ published = 5

\* C11: a payload is handed to publish_data in the very step that mutates
\* the record, and holds the four values the record has at that instant; a
\* data packet handled while the call is suspended, and the call's return,
\* leave that payload as it is; and should_submit changes only in a step
\* that finds the three fields set and leaves them set.
C11_ConsistentSnapshot ==
    [][/\ published' \in {published, published + 1}
       /\ published' = published + 1 =>
            /\ IsUpdate(op') \/ op' = "submit_form"
            /\ payload'.customer_name = dumps(customer_name')
            /\ payload'.customer_phone = dumps(customer_phone')
            /\ payload'.customer_email = dumps(customer_email')
            /\ payload'.should_submit = dumps_bool(should_submit')
       /\ published' = published => payload' = payload
       /\ should_submit' # should_submit =>
            (AllSet(userdata) /\ AllSet(userdata') /\ op' = "submit_form")]_vars

\* the peer has replaced the name while update_name("Ada") is suspended:
\* the payload still holds the record of the mutation instant
C11_Witness ==
    /\ pc = "await"
    /\ op = "handle_data"
    /\ call.tool = "update_name"
    /\ call.arg = "Ada"
    /\ customer_name = Str("Eve")
    /\ payload.customer_name = "\"Ada\""

\* the confirmation an update_* tool returns for the argument arg
Confirmation(tool, arg) ==
    IF tool = "update_name" THEN "The name is updated to " \o arg
    ELSE IF tool = "update_phone" THEN "The phone number is updated to " \o arg
    ELSE "The email is updated to " \o arg

\* C12: with tool calls only, an update_* call that directly follows the
\* return of the same call with the same argument leaves the four fields
\* as they are and returns the same confirmation.
C12_SetIdempotent ==
    [][/\ (/\ op = "resume"
           /\ IsUpdate(call.tool)
           /\ op' = call.tool
           /\ call'.arg = call.arg) =>
              (userdata' = userdata /\ Confirmation(call'.tool, call'.arg) = ret)
       /\ (op' = "resume" /\ IsUpdate(call.tool)) =>
              ret' = Confirmation(call.tool, call.arg)]_vars

\* the second of two update_phone("Ada") calls in a row has mutated
C12_Witness ==
    /\ op = "update_phone"
    /\ call.arg = "Ada"
    /\ pre.userdata.customer_phone = Str("Ada")
    /\ customer_phone = Str("Ada")
    /\ calls = 2
    /\ packets = 0
    /\ published = 2

\* C13: whenever should_submit is true the three fields are set, and no
\* payload carries should_submit true together with a null field.
C13_SubmittedImpliesComplete ==
    /\ should_submit => AllSet(userdata)
    /\ payload.should_submit = "true" =>
        /\ payload.customer_name # "null"
        /\ payload.customer_phone # "null"
        /\ payload.customer_email # "null"

\* C14: an update_* call and a data packet change at most the field they
\* name; neither changes should_submit.
C14_OwnFieldOnly ==
    /\ (op = "update_name" \/ (op = "handle_data" /\ packet.obj.field = Str("name"))) =>
        /\ customer_phone = pre.userdata.customer_phone
        /\ customer_email = pre.userdata.customer_email
    /\ (op = "update_phone" \/ (op = "handle_data" /\ packet.obj.field = Str("phone"))) =>
        /\ customer_name = pre.userdata.customer_name
        /\ customer_email = pre.userdata.customer_email
    /\ (op = "update_email" \/ (op = "handle_data" /\ packet.obj.field = Str("email"))) =>
        /\ customer_name = pre.userdata.customer_name
        /\ customer_phone = pre.userdata.customer_phone
    /\ (IsUpdate(op) \/ op = "handle_data") =>
          should_submit = pre.userdata.should_submit

\* the peer has replaced the phone of a record whose name and phone were set
C14_Witness ==
    /\ op = "handle_data"
    /\ packet.obj.field = Str("phone")
    /\ pre.userdata.customer_phone = Str("Bob")
    /\ customer_phone = Str("Eve")
    /\ customer_name = Str("Ada")
    /\ ~should_submit

\* C15: a JSON object with a recognized selector and no "value" key changes
\* none of the four fields and publishes nothing; its KeyError is caught
\* and logged inside handle_data.
C15_MissingValueAbsorbed ==
    (/\ op = "handle_data"
     /\ packet.data = "json_object"
     /\ packet.obj.field \in Recognized
     /\ packet.obj.value = Missing) =>
        /\ userdata = pre.userdata
        /\ published = pre.published
        /\ ~escaped
        /\ log = "failed to parse data packet"

\* {"field": "name"} arrives at a record whose name is set
C15_Witness ==
    /\ op = "handle_data"
    /\ packet.data = "json_object"
    /\ packet.obj.field = Str("name")
    /\ packet.obj.value = Missing
    /\ customer_name = Str("Ada")
    /\ log = "failed to parse data packet"
====
